---- MODULE Spec2Model ----
(***************************************************************************)
(* Model of the JNI bridge functions of native-lib.cpp: calculateSum,      *)
(* calculateDifference, CalculateArrySum, ReversesString and               *)
(* swapPersonAttributes.  One native call is in progress at a time; pc is  *)
(* the statement the call is about to execute.  Strings of the managed     *)
(* side are sequences of UTF-16 code units, native strings are sequences   *)
(* of bytes in the modified UTF-8 encoding the JNI string functions use.   *)
(* A JNI call whose behaviour the JNI specification leaves undefined (a    *)
(* NULL handle or id, a pending exception, an ill-formed byte string) is a *)
(* choice between the process dying (pc = "abort") and the call going on.  *)
(***************************************************************************)
EXTENDS Integers, Sequences, FiniteSets

\* Largest jint (jint is a 32-bit signed integer).
MaxInt == 2147483647

MinInt == -MaxInt - 1

\* Release mode passed to ReleaseIntArrayElements (jni.h: JNI_ABORT).
JNI_ABORT == 2

\* Longest caller array enumerated.
MaxArrLen == 3

\* Longest caller string enumerated.
MaxStrLen == 2

\* Argument values tried for jint parameters and fields.
IntSamples == {MinInt, -1, 0, 1, 30, MaxInt}

\* Element values tried for jintArray arguments.
ArrElems == {MinInt, -1, 1, MaxInt}

\* UTF-16 code units tried: U+0000, 'a', U+00E9 (2 bytes), U+20AC (3 bytes).
Chars == {0, 97, 233, 8364}

Hello == <<104, 101, 108, 108, 111>>

Alice == <<65, 108, 105, 99, 101>>

SeqsUpTo(S, n) == UNION {[1..k -> S] : k \in 0..n}

Arrays == SeqsUpTo(ArrElems, MaxArrLen) \cup {<<1, 2, 3, 4>>}

Strings == SeqsUpTo(Chars, MaxStrLen) \cup {Hello, Alice}

ScalarPairs == (IntSamples \X IntSamples) \cup {<<3, 5>>, <<10, 4>>}

\* Variant of Add32 that clamps at the ends of the jint range instead of wrapping.
Add32_saturating(x, y) ==
    IF x >= 0 /\ y >= 0 /\ x > MaxInt - y THEN MaxInt
    ELSE IF x < 0 /\ y < 0 /\ x < MinInt - y THEN MinInt
    ELSE x + y

\* jint addition: the two's complement result of the machine add.
Add32(x, y) ==
    IF x >= 0 /\ y >= 0 /\ x > MaxInt - y
        THEN (x - MaxInt - 1) + (y - MaxInt - 1)
    ELSE IF x < 0 /\ y < 0 /\ x < MinInt - y
        THEN (x + MaxInt + 1) + (y + MaxInt + 1)
    ELSE x + y

\* jint subtraction: the two's complement result of the machine subtract.
Sub32(x, y) ==
    IF x >= 0 /\ y < 0 /\ x > MaxInt + y
        THEN (x - MaxInt - 1) - (y + MaxInt + 1)
    ELSE IF x < 0 /\ y >= 0 /\ x < MinInt + y
        THEN (x + MaxInt + 1) - (y - MaxInt - 1)
    ELSE x - y

RECURSIVE Concat(_)
Concat(ss) == IF ss = <<>> THEN <<>> ELSE Head(ss) \o Concat(Tail(ss))

\* Modified UTF-8 bytes of one UTF-16 code unit (U+0000 takes two bytes).
EncodeUnit(c) ==
    IF c >= 1 /\ c <= 127 THEN <<c>>
    ELSE IF c <= 2047 THEN <<192 + (c \div 64), 128 + (c % 64)>>
    ELSE <<224 + (c \div 4096), 128 + ((c \div 64) % 64), 128 + (c % 64)>>

\* GetStringUTFChars: the modified UTF-8 bytes of a managed string, NUL-terminated.
EncodeMUTF8(s) == Concat([k \in 1..Len(s) |-> EncodeUnit(s[k])]) \o <<0>>

\* std::string(const char*) and c_str() readers: the bytes before the first NUL.
RECURSIVE CStr(_)
CStr(bytes) ==
    IF bytes = <<>> \/ Head(bytes) = 0 THEN <<>>
    ELSE <<Head(bytes)>> \o CStr(Tail(bytes))

IsCont(x) == x >= 128 /\ x <= 191

\* Whether a byte string is well-formed modified UTF-8 (what NewStringUTF requires).
RECURSIVE IsValidMUTF8(_)
IsValidMUTF8(bytes) ==
    IF bytes = <<>> THEN TRUE
    ELSE LET b1 == Head(bytes) IN
         IF b1 >= 1 /\ b1 <= 127 THEN IsValidMUTF8(Tail(bytes))
         ELSE IF b1 >= 192 /\ b1 <= 223
             THEN Len(bytes) >= 2 /\ IsCont(bytes[2])
                  /\ IsValidMUTF8(SubSeq(bytes, 3, Len(bytes)))
         ELSE IF b1 >= 224 /\ b1 <= 239
             THEN Len(bytes) >= 3 /\ IsCont(bytes[2]) /\ IsCont(bytes[3])
                  /\ IsValidMUTF8(SubSeq(bytes, 4, Len(bytes)))
         ELSE FALSE

\* NewStringUTF on well-formed input: the UTF-16 code units the bytes decode to.
RECURSIVE DecodeMUTF8(_)
DecodeMUTF8(bytes) ==
    IF bytes = <<>> THEN <<>>
    ELSE LET b1 == Head(bytes) IN
         IF b1 <= 127 THEN <<b1>> \o DecodeMUTF8(Tail(bytes))
         ELSE IF b1 <= 223
             THEN <<(b1 - 192) * 64 + (bytes[2] - 128)>>
                  \o DecodeMUTF8(SubSeq(bytes, 3, Len(bytes)))
         ELSE <<(b1 - 224) * 4096 + (bytes[2] - 128) * 64 + (bytes[3] - 128)>>
              \o DecodeMUTF8(SubSeq(bytes, 4, Len(bytes)))

\* std::reverse over [begin, end).
Reverse(s) == [k \in 1..Len(s) |-> s[Len(s) + 1 - k]]

RECURSIVE Digits(_)
Digits(n) == IF n < 10 THEN <<48 + n>> ELSE Digits(n \div 10) \o <<48 + (n % 10)>>

\* std::to_string(int): decimal digits, '-' first for a negative value.
to_string(n) ==
    IF n >= 0 THEN Digits(n)
    ELSE LET m == -(n + 1)
             q == (m \div 10) + (IF m % 10 = 9 THEN 1 ELSE 0)
             r == ((m % 10) + 1) % 10
         IN <<45>> \o (IF q = 0 THEN <<>> ELSE Digits(q)) \o <<48 + r>>


\* The Person constructor (String, int) of the managed side: stores its arguments.
PersonInit(n, g) == [name |-> n, age |-> g]

VARIABLES
    pc,                   \* statement about to run: "idle", a line label, "done", "abort"
    fn,                   \* the entry point in progress
    a, b,                 \* jint arguments of calculateSum / calculateDifference
    array,                \* the caller's jintArray: [isNull, elems]
    input,                \* the caller's jstring (UTF-16 code units)
    heap,                 \* managed Person objects, indexed by handle (1 = argument)
    cls,                  \* what the Person class declares: [hasName, hasAge, hasCtor]
    entry,                \* managed state at call entry: [array, heap]
    buf,                  \* the borrowed buffer (elements / inputChars / nameChars)
    length, i, sum,       \* locals of CalculateArrySum
    inputStr,             \* local std::string of ReversesString
    name,                 \* local std::string of swapPersonAttributes
    nameField, ageField, constructor,
    nameJString, age, swappedPerson, swappedNameJString, swappedPersonObject,
    exc,                  \* the pending managed exception, "none" if none
    ret,                  \* the value returned to the caller: [kind, val]
    relCount,             \* releases of the borrowed buffer in this call
    staleRead,            \* a read of the borrowed buffer after its release happened
    outSrc,               \* storage the returned string was built from
    last                  \* the ReversesString call that returned just before: [set, in, out]

argVars == <<a, b, array, input, heap, cls, entry>>

sumVars == <<length, i, sum>>

swapVars == <<name, nameField, ageField, constructor, nameJString, age,
              swappedPerson, swappedNameJString, swappedPersonObject>>

bufVars == <<buf, relCount, staleRead>>

vars == <<pc, fn, argVars, sumVars, inputStr, swapVars, bufVars, exc, ret, outSrc,
          last>>

NoBuf == [st |-> "none", data |-> <<>>, copy |-> FALSE]

NoRet == [kind |-> "none", val |-> 0]

NullString == [isNull |-> TRUE, chars |-> <<>>]

NoLast == [set |-> FALSE, in |-> <<>>, out |-> <<>>]

\* Values a read through an invalid field id may produce.
GarbageInts == {0, -1}

\* Strings NewStringUTF may build from bytes that are not modified UTF-8.
UnspecifiedStrings == SeqsUpTo(Chars, 1)

\* Lengths GetArrayLength may produce for a NULL array.
GarbageLengths == {0, 1}

Init ==
    /\ pc = "idle" /\ fn = "none"
    /\ a = 0 /\ b = 0
    /\ array = [isNull |-> TRUE, elems |-> <<>>]
    /\ input = <<>>
    /\ heap = <<>>
    /\ cls = [hasName |-> TRUE, hasAge |-> TRUE, hasCtor |-> TRUE]
    /\ entry = [array |-> <<>>, heap |-> <<>>]
    /\ buf = NoBuf
    /\ length = 0 /\ i = 0 /\ sum = 0
    /\ inputStr = <<>>
    /\ name = <<>>
    /\ nameField = "unset" /\ ageField = "unset" /\ constructor = "unset"
    /\ nameJString = NullString
    /\ age = 0
    /\ swappedPerson = [name |-> <<>>, age |-> 0]
    /\ swappedNameJString = <<>>
    /\ swappedPersonObject = 0
    /\ exc = "none"
    /\ ret = NoRet
    /\ relCount = 0 /\ staleRead = FALSE /\ outSrc = "none"
    /\ last = NoLast

\* The process dies (VM abort or segmentation fault) at the current statement.
Die ==
    /\ pc' = "abort"
    /\ UNCHANGED <<last, fn, argVars, sumVars, inputStr, swapVars, bufVars, exc, ret, outSrc>>

\* ---------------------------------------------------------------- scalars

calculateSum ==
    /\ pc = "idle"
    /\ last' = NoLast
    /\ \E p \in ScalarPairs :
        /\ a' = p[1] /\ b' = p[2]
        /\ ret' = [kind |-> "int", val |-> Add32(p[1], p[2])]
    /\ fn' = "calculateSum" /\ pc' = "done"
    /\ UNCHANGED <<array, input, heap, cls, entry, sumVars, inputStr, swapVars,
                   bufVars, exc, outSrc>>

calculateDifference ==
    /\ pc = "idle"
    /\ last' = NoLast
    /\ \E p \in ScalarPairs :
        /\ a' = p[1] /\ b' = p[2]
        /\ ret' = [kind |-> "int", val |-> Sub32(p[1], p[2])]
    /\ fn' = "calculateDifference" /\ pc' = "done"
    /\ UNCHANGED <<array, input, heap, cls, entry, sumVars, inputStr, swapVars,
                   bufVars, exc, outSrc>>

\* ---------------------------------------------------------------- CalculateArrySum

\* The managed side calls CalculateArrySum with an array or with null.
CalculateArrySum ==
    /\ pc = "idle"
    /\ last' = NoLast
    /\ \E arr \in [isNull : {FALSE}, elems : Arrays]
                    \cup {[isNull |-> TRUE, elems |-> <<>>]} :
        /\ array' = arr
        /\ entry' = [array |-> arr.elems, heap |-> <<>>]
    /\ fn' = "CalculateArrySum" /\ pc' = "L24"
    /\ UNCHANGED <<a, b, input, heap, cls, sumVars, inputStr, swapVars, bufVars,
                   exc, ret, outSrc>>

\* Line 24: the VM pins the array (copy = FALSE) or hands out a copy.
GetIntArrayElements ==
    /\ pc = "L24"
    /\ \/ /\ array.isNull
          /\ Die
       \/ /\ array.isNull
          /\ buf' = [st |-> "null", data |-> <<>>, copy |-> FALSE]
          /\ pc' = "L25"
          /\ UNCHANGED <<last, fn, argVars, sumVars, inputStr, swapVars, relCount,
                         staleRead, exc, ret, outSrc>>
       \/ /\ ~array.isNull
          /\ \E c \in BOOLEAN : buf' = [st |-> "held", data |-> array.elems, copy |-> c]
          /\ pc' = "L25"
          /\ UNCHANGED <<last, fn, argVars, sumVars, inputStr, swapVars, relCount,
                         staleRead, exc, ret, outSrc>>

\* Lines 25-26: length = GetArrayLength(array); sum = 0 (and i = 0 of line 28).
GetArrayLength ==
    /\ pc = "L25"
    /\ \/ /\ array.isNull
          /\ Die
       \/ /\ array.isNull
          /\ \E g \in GarbageLengths : length' = g
          /\ sum' = 0 /\ i' = 0 /\ pc' = "L28"
          /\ UNCHANGED <<last, fn, argVars, inputStr, swapVars, bufVars, exc, ret, outSrc>>
       \/ /\ ~array.isNull
          /\ length' = Len(array.elems)
          /\ sum' = 0 /\ i' = 0 /\ pc' = "L28"
          /\ UNCHANGED <<last, fn, argVars, inputStr, swapVars, bufVars, exc, ret, outSrc>>

\* elements[k] (k from 0): the copy, or the pinned array itself.
ElemAt(k) == IF buf.copy THEN buf.data[k + 1] ELSE array.elems[k + 1]

\* Variant of SumLoop whose condition is i < length - 1: the last element is skipped.
SumLoop_offByOne ==
    /\ pc = "L28"
    /\ \/ /\ i + 1 < length /\ buf.st = "null"
          /\ Die
       \/ /\ i + 1 < length /\ buf.st # "null"
          /\ sum' = Add32(sum, ElemAt(i))
          /\ i' = i + 1
          /\ staleRead' = (staleRead \/ buf.st # "held")
          /\ UNCHANGED <<last, pc, fn, argVars, length, inputStr, swapVars, buf, relCount,
                         exc, ret, outSrc>>
       \/ /\ ~(i + 1 < length)
          /\ pc' = "L32"
          /\ UNCHANGED <<last, fn, argVars, sumVars, inputStr, swapVars, bufVars, exc, ret,
                         outSrc>>

\* Variant of SumLoop that keeps the running sum in elements[i]: a pinned array is
\* written directly, a copy is written in the buffer.
SumLoop_writesBack ==
    /\ pc = "L28"
    /\ \/ /\ i < length /\ buf.st = "null"
          /\ Die
       \/ /\ i < length /\ buf.st # "null"
          /\ sum' = Add32(sum, ElemAt(i))
          /\ i' = i + 1
          /\ staleRead' = (staleRead \/ buf.st # "held")
          /\ buf' = [buf EXCEPT !.data[i + 1] = Add32(sum, ElemAt(i))]
          /\ array' = IF buf.copy THEN array
                      ELSE [array EXCEPT !.elems[i + 1] = Add32(sum, ElemAt(i))]
          /\ UNCHANGED <<last, pc, fn, a, b, input, heap, cls, entry, length, inputStr,
                         swapVars, relCount, exc, ret, outSrc>>
       \/ /\ ~(i < length)
          /\ pc' = "L32"
          /\ UNCHANGED <<last, fn, argVars, sumVars, inputStr, swapVars, bufVars, exc, ret,
                         outSrc>>

\* Lines 28-30: one test of the loop condition and, if it holds, one iteration.
SumLoop ==
    /\ pc = "L28"
    /\ \/ /\ i < length /\ buf.st = "null"
          /\ Die
       \/ /\ i < length /\ buf.st # "null"
          /\ sum' = Add32(sum, ElemAt(i))
          /\ i' = i + 1
          /\ staleRead' = (staleRead \/ buf.st # "held")
          /\ UNCHANGED <<last, pc, fn, argVars, length, inputStr, swapVars, buf, relCount,
                         exc, ret, outSrc>>
       \/ /\ ~(i < length)
          /\ pc' = "L32"
          /\ UNCHANGED <<last, fn, argVars, sumVars, inputStr, swapVars, bufVars, exc, ret,
                         outSrc>>

\* The caller's array after a release in the given mode: a copy is written back
\* unless the mode is JNI_ABORT.
ArrayAfterRelease(mode) ==
    IF buf.copy /\ mode # JNI_ABORT THEN [array EXCEPT !.elems = buf.data] ELSE array

\* Line 32: ReleaseIntArrayElements(array, elements, JNI_ABORT).
ReleaseIntArrayElements ==
    /\ pc = "L32"
    /\ \/ /\ array.isNull
          /\ Die
       \/ /\ array.isNull
          /\ pc' = "L33"
          /\ UNCHANGED <<last, fn, argVars, sumVars, inputStr, swapVars, bufVars, exc, ret,
                         outSrc>>
       \/ /\ ~array.isNull
          /\ array' = ArrayAfterRelease(JNI_ABORT)
          /\ buf' = [buf EXCEPT !.st = "released"]
          /\ relCount' = relCount + 1
          /\ pc' = "L33"
          /\ UNCHANGED <<last, fn, a, b, input, heap, cls, entry, sumVars, inputStr, swapVars,
                         staleRead, exc, ret, outSrc>>

\* Line 33: return sum.
ReturnSum ==
    /\ pc = "L33"
    /\ ret' = [kind |-> "int", val |-> sum]
    /\ pc' = "done"
    /\ UNCHANGED <<last, fn, argVars, sumVars, inputStr, swapVars, bufVars, exc, outSrc>>

\* ---------------------------------------------------------------- ReversesString

\* The managed side calls ReversesString with a string, possibly the one the
\* previous ReversesString call returned.
ReversesString ==
    /\ pc = "idle"
    /\ \E s \in Strings \cup (IF last.set THEN {last.out} ELSE {}) :
        /\ input' = s
        /\ last' = IF last.set /\ s = last.out THEN last ELSE NoLast
    /\ fn' = "ReversesString" /\ pc' = "L40"
    /\ UNCHANGED <<a, b, array, heap, cls, entry, sumVars, inputStr, swapVars, bufVars,
                   exc, ret, outSrc>>

\* Line 40: inputChars = GetStringUTFChars(input, nullptr).
GetStringUTFChars_input ==
    /\ pc = "L40"
    /\ \E c \in BOOLEAN : buf' = [st |-> "held", data |-> EncodeMUTF8(input), copy |-> c]
    /\ pc' = "L41"
    /\ UNCHANGED <<last, fn, argVars, sumVars, inputStr, swapVars, relCount, staleRead, exc,
                   ret, outSrc>>

\* Line 41: std::string inputStr(inputChars).
CopyInputStr ==
    /\ pc = "L41"
    /\ inputStr' = CStr(buf.data)
    /\ staleRead' = (staleRead \/ buf.st # "held")
    /\ pc' = "L42"
    /\ UNCHANGED <<last, fn, argVars, sumVars, swapVars, buf, relCount, exc, ret, outSrc>>

\* Line 42: std::reverse(inputStr.begin(), inputStr.end()).
ReverseInputStr ==
    /\ pc = "L42"
    /\ inputStr' = Reverse(inputStr)
    /\ pc' = "L43"
    /\ UNCHANGED <<last, fn, argVars, sumVars, swapVars, bufVars, exc, ret, outSrc>>

\* Line 43: ReleaseStringUTFChars(input, inputChars).
ReleaseStringUTFChars_input ==
    /\ pc = "L43"
    /\ buf' = [buf EXCEPT !.st = "released"]
    /\ relCount' = relCount + 1
    /\ pc' = "L44"
    /\ UNCHANGED <<last, fn, argVars, sumVars, inputStr, swapVars, staleRead, exc, ret, outSrc>>

\* Variant of ReversedCStr that hands NewStringUTF the released inputChars buffer.
ReversedCStr_borrowed == [src |-> "borrowed", bytes |-> buf.data]

\* The argument of NewStringUTF on line 44: inputStr.c_str().
ReversedCStr == [src |-> "local", bytes |-> inputStr \o <<0>>]

\* Line 44: return NewStringUTF(inputStr.c_str()).  Bytes that are not modified
\* UTF-8 are outside NewStringUTF's contract: the VM aborts or builds some string.
NewStringUTF_reversed ==
    /\ pc = "L44"
    /\ LET arg == ReversedCStr
           bytes == CStr(arg.bytes)
       IN /\ outSrc' = arg.src
          /\ staleRead' = (staleRead \/ (arg.src = "borrowed" /\ buf.st # "held"))
          /\ \/ /\ IsValidMUTF8(bytes)
                /\ ret' = [kind |-> "string", val |-> DecodeMUTF8(bytes)]
                /\ pc' = "done"
             \/ /\ ~IsValidMUTF8(bytes)
                /\ ret' = ret
                /\ pc' = "abort"
             \/ /\ ~IsValidMUTF8(bytes)
                /\ \E g \in UnspecifiedStrings : ret' = [kind |-> "string", val |-> g]
                /\ pc' = "done"
    /\ UNCHANGED <<last, fn, argVars, sumVars, inputStr, swapVars, buf, relCount, exc>>

\* ---------------------------------------------------------------- swapPersonAttributes

\* The managed side calls swapPersonAttributes with a Person; the class may lack
\* the members the native code looks up by name.
swapPersonAttributes ==
    /\ pc = "idle"
    /\ last' = NoLast
    /\ \E n \in Strings, g \in IntSamples,
          c \in [hasName : BOOLEAN, hasAge : BOOLEAN, hasCtor : BOOLEAN] :
        /\ heap' = <<[name |-> n, age |-> g]>>
        /\ entry' = [array |-> <<>>, heap |-> <<[name |-> n, age |-> g]>>]
        /\ cls' = c
    /\ fn' = "swapPersonAttributes" /\ pc' = "L59"
    /\ UNCHANGED <<a, b, array, input, sumVars, inputStr, swapVars, bufVars, exc, ret,
                   outSrc>>

\* Line 59: personClass = GetObjectClass(person).
GetObjectClass ==
    /\ pc = "L59"
    /\ pc' = "L60"
    /\ UNCHANGED <<last, fn, argVars, sumVars, inputStr, swapVars, bufVars, exc, ret, outSrc>>

\* Line 60: nameField = GetFieldID(personClass, "name", ...): NULL and a pending
\* NoSuchFieldError when the class has no such field.
GetFieldID_name ==
    /\ pc = "L60"
    /\ nameField' = IF cls.hasName THEN "name" ELSE "NULL"
    /\ exc' = IF cls.hasName THEN exc ELSE "NoSuchFieldError"
    /\ pc' = "L61"
    /\ UNCHANGED <<last, fn, argVars, sumVars, inputStr, name, ageField, constructor,
                   nameJString, age, swappedPerson, swappedNameJString,
                   swappedPersonObject, bufVars, ret, outSrc>>

\* Line 61: ageField = GetFieldID(personClass, "age", "I"), called whatever line 60
\* returned.
GetFieldID_age ==
    /\ pc = "L61"
    /\ \/ /\ exc # "none"
          /\ Die
       \/ /\ ageField' = IF cls.hasAge THEN "age" ELSE "NULL"
          /\ exc' = IF cls.hasAge \/ exc # "none" THEN exc ELSE "NoSuchFieldError"
          /\ pc' = "L64"
          /\ UNCHANGED <<last, fn, argVars, sumVars, inputStr, name, nameField, constructor,
                         nameJString, age, swappedPerson, swappedNameJString,
                         swappedPersonObject, bufVars, ret, outSrc>>

\* Line 64: nameJString = GetObjectField(person, nameField).
GetObjectField_name ==
    /\ pc = "L64"
    /\ \/ /\ exc # "none"
          /\ Die
       \/ /\ nameField = "NULL"
          /\ Die
       \/ /\ nameJString' = IF nameField = "NULL" THEN NullString
                            ELSE [isNull |-> FALSE, chars |-> heap[1].name]
          /\ pc' = "L65"
          /\ UNCHANGED <<last, fn, argVars, sumVars, inputStr, name, nameField, ageField,
                         constructor, age, swappedPerson, swappedNameJString,
                         swappedPersonObject, bufVars, exc, ret, outSrc>>

\* Line 65: nameChars = GetStringUTFChars(nameJString, nullptr).
GetStringUTFChars_name ==
    /\ pc = "L65"
    /\ \/ /\ exc # "none"
          /\ Die
       \/ /\ nameJString.isNull
          /\ Die
       \/ /\ \E c \in BOOLEAN :
                buf' = IF nameJString.isNull
                       THEN [st |-> "null", data |-> <<>>, copy |-> FALSE]
                       ELSE [st |-> "held", data |-> EncodeMUTF8(nameJString.chars),
                             copy |-> c]
          /\ pc' = "L66"
          /\ UNCHANGED <<last, fn, argVars, sumVars, inputStr, swapVars, relCount, staleRead,
                         exc, ret, outSrc>>

\* Line 66: std::string name(nameChars); a NULL nameChars is dereferenced.
CopyName ==
    /\ pc = "L66"
    /\ \/ /\ buf.st = "null"
          /\ Die
       \/ /\ buf.st # "null"
          /\ name' = CStr(buf.data)
          /\ staleRead' = (staleRead \/ buf.st # "held")
          /\ pc' = "L67"
          /\ UNCHANGED <<last, fn, argVars, sumVars, inputStr, nameField, ageField,
                         constructor, nameJString, age, swappedPerson,
                         swappedNameJString, swappedPersonObject, buf, relCount, exc,
                         ret, outSrc>>

\* Line 67: ReleaseStringUTFChars(nameJString, nameChars) (allowed while an
\* exception is pending).
ReleaseStringUTFChars_name ==
    /\ pc = "L67"
    /\ buf' = [buf EXCEPT !.st = "released"]
    /\ relCount' = relCount + 1
    /\ pc' = "L68"
    /\ UNCHANGED <<last, fn, argVars, sumVars, inputStr, swapVars, staleRead, exc, ret, outSrc>>

\* Line 68: age = GetIntField(person, ageField).
GetIntField_age ==
    /\ pc = "L68"
    /\ \/ /\ exc # "none"
          /\ Die
       \/ /\ ageField = "NULL"
          /\ Die
       \/ /\ \E g \in (IF ageField = "NULL" THEN GarbageInts ELSE {heap[1].age}) :
                age' = g
          /\ pc' = "L71"
          /\ UNCHANGED <<last, fn, argVars, sumVars, inputStr, name, nameField, ageField,
                         constructor, nameJString, swappedPerson, swappedNameJString,
                         swappedPersonObject, bufVars, exc, ret, outSrc>>

\* Line 71: swappedPerson = {std::to_string(age), static_cast<int>(name.length())}.
SwapAttributes ==
    /\ pc = "L71"
    /\ swappedPerson' = [name |-> to_string(age), age |-> Len(name)]
    /\ pc' = "L74"
    /\ UNCHANGED <<last, fn, argVars, sumVars, inputStr, name, nameField, ageField,
                   constructor, nameJString, age, swappedNameJString,
                   swappedPersonObject, bufVars, exc, ret, outSrc>>

\* Line 74: constructor = GetMethodID(personClass, "<init>", ...).
GetMethodID_init ==
    /\ pc = "L74"
    /\ \/ /\ exc # "none"
          /\ Die
       \/ /\ constructor' = IF cls.hasCtor THEN "init" ELSE "NULL"
          /\ exc' = IF cls.hasCtor \/ exc # "none" THEN exc ELSE "NoSuchMethodError"
          /\ pc' = "L75"
          /\ UNCHANGED <<last, fn, argVars, sumVars, inputStr, name, nameField, ageField,
                         nameJString, age, swappedPerson, swappedNameJString,
                         swappedPersonObject, bufVars, ret, outSrc>>

\* Line 75: swappedNameJString = NewStringUTF(swappedPerson.name.c_str()).
NewStringUTF_swapped ==
    /\ pc = "L75"
    /\ \/ /\ exc # "none"
          /\ Die
       \/ /\ swappedNameJString' = DecodeMUTF8(CStr(swappedPerson.name \o <<0>>))
          /\ pc' = "L76"
          /\ UNCHANGED <<last, fn, argVars, sumVars, inputStr, name, nameField, ageField,
                         constructor, nameJString, age, swappedPerson,
                         swappedPersonObject, bufVars, exc, ret, outSrc>>

\* Variant of NewObject that stores the swapped attributes in the argument object
\* and returns that object.
NewObject_inPlace ==
    /\ pc = "L76"
    /\ \/ /\ exc # "none"
          /\ Die
       \/ /\ heap' = [heap EXCEPT ![1] = PersonInit(swappedNameJString, swappedPerson.age)]
          /\ swappedPersonObject' = 1
          /\ pc' = "L78"
          /\ UNCHANGED <<last, fn, a, b, array, input, cls, entry, sumVars, inputStr, name,
                         nameField, ageField, constructor, nameJString, age,
                         swappedPerson, swappedNameJString, bufVars, exc, ret, outSrc>>

\* Line 76: swappedPersonObject = NewObject(personClass, constructor, ...): a new
\* object, initialised by the constructor; 0 is the NULL handle.
NewObject ==
    /\ pc = "L76"
    /\ \/ /\ exc # "none"
          /\ Die
       \/ /\ constructor = "NULL"
          /\ Die
       \/ /\ constructor = "NULL"
          /\ swappedPersonObject' = 0
          /\ pc' = "L78"
          /\ UNCHANGED <<last, fn, argVars, sumVars, inputStr, name, nameField, ageField,
                         constructor, nameJString, age, swappedPerson,
                         swappedNameJString, bufVars, exc, ret, outSrc>>
       \/ /\ constructor # "NULL"
          /\ heap' = Append(heap, PersonInit(swappedNameJString, swappedPerson.age))
          /\ swappedPersonObject' = Len(heap) + 1
          /\ pc' = "L78"
          /\ UNCHANGED <<last, fn, a, b, array, input, cls, entry, sumVars, inputStr, name,
                         nameField, ageField, constructor, nameJString, age,
                         swappedPerson, swappedNameJString, bufVars, exc, ret, outSrc>>

\* Line 78: return swappedPersonObject.
ReturnSwapped ==
    /\ pc = "L78"
    /\ ret' = [kind |-> "object", val |-> swappedPersonObject]
    /\ pc' = "done"
    /\ UNCHANGED <<last, fn, argVars, sumVars, inputStr, swapVars, bufVars, exc, outSrc>>

\* ---------------------------------------------------------------- the caller

\* The call has returned; the managed side is free to make the next call.
Return ==
    /\ pc = "done"
    /\ pc' = "idle" /\ fn' = "none"
    /\ a' = 0 /\ b' = 0
    /\ array' = [isNull |-> TRUE, elems |-> <<>>]
    /\ input' = <<>>
    /\ heap' = <<>>
    /\ cls' = [hasName |-> TRUE, hasAge |-> TRUE, hasCtor |-> TRUE]
    /\ entry' = [array |-> <<>>, heap |-> <<>>]
    /\ buf' = NoBuf
    /\ length' = 0 /\ i' = 0 /\ sum' = 0
    /\ inputStr' = <<>>
    /\ name' = <<>>
    /\ nameField' = "unset" /\ ageField' = "unset" /\ constructor' = "unset"
    /\ nameJString' = NullString
    /\ age' = 0
    /\ swappedPerson' = [name |-> <<>>, age |-> 0]
    /\ swappedNameJString' = <<>>
    /\ swappedPersonObject' = 0
    /\ exc' = "none"
    /\ ret' = NoRet
    /\ relCount' = 0 /\ staleRead' = FALSE /\ outSrc' = "none"
    /\ last' = IF fn = "ReversesString"
               THEN [set |-> TRUE, in |-> input, out |-> ret.val]
               ELSE NoLast

Next ==
    \/ calculateSum
    \/ calculateDifference
    \/ CalculateArrySum
    \/ GetIntArrayElements
    \/ GetArrayLength
    \/ SumLoop
    \/ ReleaseIntArrayElements
    \/ ReturnSum
    \/ ReversesString
    \/ GetStringUTFChars_input
    \/ CopyInputStr
    \/ ReverseInputStr
    \/ ReleaseStringUTFChars_input
    \/ NewStringUTF_reversed
    \/ swapPersonAttributes
    \/ GetObjectClass
    \/ GetFieldID_name
    \/ GetFieldID_age
    \/ GetObjectField_name
    \/ GetStringUTFChars_name
    \/ CopyName
    \/ ReleaseStringUTFChars_name
    \/ GetIntField_age
    \/ SwapAttributes
    \/ GetMethodID_init
    \/ NewStringUTF_swapped
    \/ NewObject
    \/ ReturnSwapped
    \/ Return

Spec == Init /\ [][Next]_vars

\* ---------------------------------------------------------------- properties

RECURSIVE SumLow(_)
SumLow(xs) == IF xs = <<>> THEN 0 ELSE (Head(xs) % 65536) + SumLow(Tail(xs))

RECURSIVE SumHigh(_)
SumHigh(xs) == IF xs = <<>> THEN 0 ELSE (Head(xs) \div 65536) + SumHigh(Tail(xs))

\* x is congruent modulo 2^32 to the exact sum of the integers xs.  The exact sum
\* is kept as two base-2^16 limbs, so nothing is reduced before the comparison.
CongruentToSum(x, xs) ==
    /\ (x % 65536) = (SumLow(xs) % 65536)
    /\ ((x \div 65536) - (SumHigh(xs) + (SumLow(xs) \div 65536))) % 65536 = 0

IsAscii(s) == \A k \in 1..Len(s) : s[k] >= 1 /\ s[k] <= 127

\* The integer a string of decimal digits (after an optional '-') denotes,
\* accumulated on the negative side for a negative numeral.
RECURSIVE ParseDigits(_, _, _)
ParseDigits(ds, acc, sign) ==
    IF ds = <<>> THEN acc
    ELSE ParseDigits(Tail(ds), acc * 10 + sign * (Head(ds) - 48), sign)

\* s is the canonical decimal numeral of n: digits only, '-' exactly when n < 0,
\* no leading zero, and its value is n.
IsDecimalOf(s, n) ==
    LET neg == s # <<>> /\ s[1] = 45
        ds == IF neg THEN Tail(s) ELSE s
    IN /\ ds # <<>>
       /\ \A k \in 1..Len(ds) : ds[k] >= 48 /\ ds[k] <= 57
       /\ (Len(ds) > 1 => ds[1] # 48)
       /\ neg = (n < 0)
       /\ ParseDigits(ds, 0, IF neg THEN -1 ELSE 1) = n

SwapReturned ==
    /\ pc = "done" /\ fn = "swapPersonAttributes"
    /\ ret.kind = "object" /\ ret.val # 0

\* C1: for every record {name: n, age: a}, negative a and names with multi-byte
\* characters included, swapAttributes returns a record whose name is the decimal
\* string of a and whose age is the character-length of n.
C1_SwapContract ==
    (SwapReturned /\ exc = "none") =>
        /\ IsDecimalOf(heap[ret.val].name, entry.heap[1].age)
        /\ heap[ret.val].age = Len(entry.heap[1].name)

\* What the code does return for every record: the decimal string of a, and the
\* number of bytes of the modified UTF-8 encoding of n.
SwapReturnsByteLength ==
    (SwapReturned /\ exc = "none") =>
        /\ IsDecimalOf(heap[ret.val].name, entry.heap[1].age)
        /\ heap[ret.val].age = Len(EncodeMUTF8(entry.heap[1].name)) - 1
        /\ (IsAscii(entry.heap[1].name) =>
                heap[ret.val].age = Len(entry.heap[1].name))

\* C2: for every string s, reverseString(s) has the length of s, and
\* reverseString(reverseString(s)) equals s.
C2_ReverseInvolution ==
    fn = "ReversesString" =>
        /\ pc # "abort"
        /\ pc = "done" =>
            /\ ret.kind = "string"
            /\ Len(ret.val) = Len(input)
            /\ (last.set /\ input = last.out) => ret.val = last.in

\* C3: for every string s of length n, reverseString(s) is the exact reversal of
\* s: position i of the output holds position n-1-i of the input.
C3_ExactReversal ==
    (fn = "ReversesString" /\ pc \in {"done", "abort"}) =>
        /\ pc = "done"
        /\ Len(ret.val) = Len(input)
        /\ \A k \in 0..(Len(input) - 1) : ret.val[k + 1] = input[Len(input) - k]

\* What the code does for every string: the bytes handed to NewStringUTF are the
\* reversed modified UTF-8 bytes of s, and for a string of one-byte characters
\* the call returns the exact reversal.
ReverseOfBytes ==
    /\ (fn = "ReversesString" /\ pc \in {"L43", "L44", "done", "abort"}) =>
            \A k \in 1..Len(inputStr) :
                inputStr[k] = EncodeMUTF8(input)[Len(inputStr) + 1 - k]
    /\ (fn = "ReversesString" /\ IsAscii(input)) =>
            /\ pc # "abort"
            /\ pc = "done" =>
                /\ Len(ret.val) = Len(input)
                /\ \A k \in 0..(Len(input) - 1) : ret.val[k + 1] = input[Len(input) - k]
                /\ (last.set /\ input = last.out /\ IsAscii(last.in)) => ret.val = last.in

\* C4: for every sequence S of jint, arraySum(S) is the sum of the elements of S
\* modulo 2^32 (as a jint), and arraySum of the empty sequence is 0.
C4_ArraySum ==
    (pc = "done" /\ fn = "CalculateArrySum" /\ ~array.isNull) =>
        /\ ret.kind = "int"
        /\ ret.val >= MinInt /\ ret.val <= MaxInt
        /\ CongruentToSum(ret.val, entry.array)
        /\ (entry.array = <<>> => ret.val = 0)
        /\ (entry.array = <<1, 2, 3, 4>> => ret.val = 10)

\* A sum whose running value wrapped around on the way to the result.
C4_Witness ==
    /\ pc = "done" /\ fn = "CalculateArrySum"
    /\ entry.array = <<MaxInt, MaxInt, 1>>
    /\ ret.val = -1

\* C5: for all jint a and b, sum(a, b) is a + b and difference(a, b) is a - b
\* modulo 2^32, as a jint; no pair, overflowing or not, ends in an error.
C5_ScalarWraparound ==
    /\ (pc = "done" /\ fn = "calculateSum") =>
            /\ ret.kind = "int"
            /\ ret.val >= MinInt /\ ret.val <= MaxInt
            /\ CongruentToSum(ret.val, <<a, b>>)
    /\ (pc = "done" /\ fn = "calculateDifference") =>
            /\ ret.kind = "int"
            /\ ret.val >= MinInt /\ ret.val <= MaxInt
            /\ CongruentToSum(a, <<ret.val, b>>)
    /\ fn \in {"calculateSum", "calculateDifference"} => pc = "done"

\* An addition that overflowed: two positive arguments, a negative result.
C5_Witness ==
    /\ pc = "done" /\ fn = "calculateSum"
    /\ a = MaxInt /\ b = 1
    /\ ret.val = MinInt

\* C6: in swapAttributes, once a lookup (name field, age field, constructor) has
\* failed, the only step that follows is the fatal end of the call: no later
\* statement of the function runs and no record is returned.
C6_FatalOnLookupFailure ==
    [][(fn = "swapPersonAttributes" /\ exc # "none" /\ pc \notin {"done", "abort"})
          => (pc' = "abort" /\ ret' = ret)]_vars

\* C7: swapAttributes never changes the name or age of its argument, and a record
\* it returns is a new object, distinct from the argument.
C7_InputUntouched ==
    fn = "swapPersonAttributes" =>
        /\ Len(heap) >= 1
        /\ heap[1] = entry.heap[1]
        /\ SwapReturned =>
            /\ ret.val # 1
            /\ ret.val \notin DOMAIN entry.heap
            /\ ret.val \in DOMAIN heap

\* A returned record that differs from the argument.
C7_Witness ==
    /\ SwapReturned
    /\ ret.val = 2
    /\ heap[2] # heap[1]
    /\ heap[1].name # <<>>

\* C8: arraySum of a null sequence returns zero, as for a zero-length sequence,
\* and never dereferences the absent buffer.
C8_NullArrayIsZero ==
    (fn = "CalculateArrySum" /\ array.isNull) =>
        /\ pc # "abort"
        /\ pc = "done" => (ret.kind = "int" /\ ret.val = 0)

\* C9: in arraySum, reverseString and swapAttributes the borrowed buffer is
\* released exactly once before the call returns, is never read after its
\* release, and the string reverseString returns is built from the local copy.
C9_BorrowDiscipline ==
    /\ relCount <= 1
    /\ ~staleRead
    /\ (buf.st = "released") = (relCount = 1)
    /\ (pc = "done" /\ fn \in {"ReversesString", "swapPersonAttributes"}) =>
            buf.st = "released"
    /\ (pc = "done" /\ fn = "CalculateArrySum") =>
            buf.st = IF array.isNull THEN "null" ELSE "released"
    /\ (pc = "done" /\ fn = "ReversesString") => outSrc = "local"
    /\ outSrc \in {"none", "local"}

\* A ReversesString call that returned after borrowing and releasing inputChars.
C9_Witness ==
    /\ pc = "done" /\ fn = "ReversesString"
    /\ input # <<>>
    /\ relCount = 1 /\ outSrc = "local"

\* C10: arraySum leaves the caller's array as it was at call entry, at every
\* point of the call and after it, whether the VM pinned the array or copied it.
C10_ArrayUnchanged ==
    (fn = "CalculateArrySum" /\ ~array.isNull) => array.elems = entry.array

\* A completed pass over a pinned (not copied) array of several elements.
C10_Witness ==
    /\ pc = "done" /\ fn = "CalculateArrySum"
    /\ ~array.isNull /\ Len(entry.array) >= 2
    /\ ~buf.copy /\ buf.st = "released"

====
